---- MODULE Spec2Model ----
(***************************************************************************)
(* jh_warm.py: the GPU double-buffering DataPrefetcher and the three-stage *)
(* training driver (main / fit / save_args).                               *)
(*                                                                         *)
(* Spec      one DataPrefetcher over one loader, iterated up to MaxIters   *)
(*           times, together with the two CUDA streams it orders.          *)
(* SpecMain  main(): three stages of torch_loader / set_data / fit.        *)
(***************************************************************************)
EXTENDS Integers, Sequences, FiniteSets, TLC

MaxLen == 3
MaxCap == 3
MaxIters == 2
MaxFitBatches == 2

VARIABLES
    loader_len,   \* len(self.loader): batches one iterator of the loader produces
    stop_after,   \* self.stop_after
    loaditer,     \* self.loaditer
    next_input,   \* self.next_input
    next_target,  \* self.next_target
    count,        \* local count of __iter__
    input,        \* local input of __iter__
    target,       \* local target of __iter__
    pc,           \* position of the generator __iter__
    iters,        \* how many iterators iter(self.loader) has handed out
    yielded,      \* pairs handed to the consumer by the running iteration
    trace,        \* events of the running iteration, in program order
    exhaustedAt,  \* the iteration that first ran the source to exhaustion (0: none)
    copyIssued,   \* batch copies issued on self.stream
    copyDone,     \* batch copies self.stream has completed (FIFO)
    mainQ,        \* operations queued on the current (main) stream
    ran,          \* consumer kernels the main stream has executed
    args,         \* the parsed command line (module-level args)
    mpc,          \* position of main()
    stage,        \* the stage main() is at (1..3)
    heap,         \* every DataPrefetcher torch_loader has constructed
    data,         \* local data of main(): the TorchModelData of the last torch_loader
    train_sampler,\* local train_sampler of main()
    learner_data, \* learner.data: the TorchModelData the learner trains on
    loadCalls,    \* stages whose torch_loader call has started
    fitCalls,     \* stages whose fit call has started
    logOpened,    \* log files opened by the logging callback, one entry per fit
    received,     \* batches the training loop was handed
    nbatch        \* batches handed out by the running fit

pvars == <<loader_len, stop_after, loaditer, next_input, next_target, count,
           input, target, pc, iters, yielded, trace, exhaustedAt>>
dvars == <<copyIssued, copyDone, mainQ, ran>>
mvars == <<args, mpc, stage, heap, data, train_sampler, learner_data,
           loadCalls, fitCalls, logOpened, received, nbatch>>
vars == <<pvars, dvars, mvars>>

----------------------------------------------------------------------------
(* Python values *)

None == [type |-> "NoneType"]

PyInt(k) == [type |-> "int", val |-> k]

\* The part ("input" / "target") of batch idx of the it-th iterator of the
\* loader, as a host tensor.
HostTensor(part, it, idx) ==
    [type |-> "Tensor", part |-> part, it |-> it, idx |-> idx, dev |-> "cpu", op |-> 0]

\* t.cuda(async=True) inside `with torch.cuda.stream(self.stream)`: the device
\* tensor that copy-stream operation number op fills in.
Cuda(t, op) == [t EXCEPT !.dev = "cuda", !.op = op]

\* iter(self.loader): a fresh iterator, positioned before the first batch.
NewIter(it) == [type |-> "iterator", it |-> it, pos |-> 0]

\* stop_after is None (the default) or any int the caller passes; a negative
\* int is an int too.
Caps == {None} \cup {PyInt(k) : k \in (0 - 1)..MaxCap}

----------------------------------------------------------------------------
(* DataPrefetcher.__init__(loader, stop_after): binds the loader, creates the
   copy stream, leaves both slots empty; nothing is pulled from the loader. *)
NewPrefetcher(len, cap) ==
    /\ loader_len = len
    /\ stop_after = cap
    /\ loaditer = None
    /\ next_input = None
    /\ next_target = None
    /\ count = 0
    /\ input = None
    /\ target = None
    /\ pc = "new"
    /\ iters = 0
    /\ yielded = <<>>
    /\ trace = <<>>
    /\ exhaustedAt = 0
    /\ copyIssued = 0
    /\ copyDone = 0
    /\ mainQ = <<>>
    /\ ran = <<>>

Event(ev, idx) == [ev |-> ev, idx |-> idx]

\* preload with a bare `except:` in place of `except StopIteration:`: an
\* error raised by next(self.loaditer) is taken for the end of the source.
preload_CatchAll(li, tr, okpc) ==
    \/ /\ li.pos >= loader_len
       /\ loaditer' = li
       /\ next_input' = None
       /\ next_target' = None
       /\ trace' = Append(tr, Event("next", li.pos))
       /\ pc' = okpc
       /\ UNCHANGED copyIssued
    \/ /\ li.pos < loader_len
       /\ loaditer' = [li EXCEPT !.pos = li.pos + 1]
       /\ next_input' = Cuda(HostTensor("input", li.it, li.pos), copyIssued + 1)
       /\ next_target' = Cuda(HostTensor("target", li.it, li.pos), copyIssued + 1)
       /\ copyIssued' = copyIssued + 1
       /\ trace' = tr \o <<Event("next", li.pos), Event("copy", li.pos)>>
       /\ pc' = okpc
    \/ /\ li.pos < loader_len
       /\ loaditer' = li
       /\ next_input' = None
       /\ next_target' = None
       /\ trace' = tr \o <<Event("next", li.pos), Event("fail", li.pos)>>
       /\ pc' = okpc
       /\ UNCHANGED copyIssued

(* DataPrefetcher.preload, run with self.loaditer = li after the events tr;
   okpc is where the caller continues when preload returns.
   next(self.loaditer) either raises StopIteration (caught: both slots become
   None), returns a batch, or raises another error; each of the two
   .cuda(async=True) calls may raise as well.  Nothing but StopIteration is
   caught, so any other error leaves the generator. *)
preload(li, tr, okpc) ==
    \/ /\ li.pos >= loader_len
       /\ loaditer' = li
       /\ next_input' = None
       /\ next_target' = None
       /\ trace' = Append(tr, Event("next", li.pos))
       /\ pc' = okpc
       /\ UNCHANGED copyIssued
    \/ /\ li.pos < loader_len
       /\ loaditer' = [li EXCEPT !.pos = li.pos + 1]
       /\ next_input' = Cuda(HostTensor("input", li.it, li.pos), copyIssued + 1)
       /\ next_target' = Cuda(HostTensor("target", li.it, li.pos), copyIssued + 1)
       /\ copyIssued' = copyIssued + 1
       /\ trace' = tr \o <<Event("next", li.pos), Event("copy", li.pos)>>
       /\ pc' = okpc
    \/ /\ li.pos < loader_len            \* next(self.loaditer) raises
       /\ loaditer' = li
       /\ trace' = tr \o <<Event("next", li.pos), Event("fail", li.pos)>>
       /\ pc' = "error"
       /\ UNCHANGED <<next_input, next_target, copyIssued>>
    \/ /\ li.pos < loader_len            \* self.next_input.cuda(...) raises
       /\ loaditer' = [li EXCEPT !.pos = li.pos + 1]
       /\ next_input' = HostTensor("input", li.it, li.pos)
       /\ next_target' = HostTensor("target", li.it, li.pos)
       /\ trace' = tr \o <<Event("next", li.pos), Event("fail", li.pos)>>
       /\ pc' = "error"
       /\ UNCHANGED copyIssued
    \/ /\ li.pos < loader_len            \* self.next_target.cuda(...) raises
       /\ loaditer' = [li EXCEPT !.pos = li.pos + 1]
       /\ next_input' = Cuda(HostTensor("input", li.it, li.pos), copyIssued + 1)
       /\ next_target' = HostTensor("target", li.it, li.pos)
       /\ copyIssued' = copyIssued + 1
       /\ trace' = tr \o <<Event("next", li.pos), Event("copy", li.pos),
                           Event("fail", li.pos)>>
       /\ pc' = "error"

\* __iter__ that keeps an iterator it already has instead of asking the
\* loader for a fresh one.
Begin_KeepIter ==
    /\ pc \in {"new", "done"}
    /\ iters < MaxIters
    /\ iters' = iters + 1
    /\ count' = 0
    /\ yielded' = <<>>
    /\ preload(IF loaditer = None THEN NewIter(iters + 1) ELSE loaditer, <<>>, "test")
    /\ UNCHANGED <<mvars, loader_len, stop_after, input, target, exhaustedAt,
                   copyDone, mainQ, ran>>

\* __iter__ without the self.preload() call before the loop.
Begin_NoPreload ==
    /\ pc \in {"new", "done"}
    /\ iters < MaxIters
    /\ iters' = iters + 1
    /\ count' = 0
    /\ yielded' = <<>>
    /\ loaditer' = NewIter(iters + 1)
    /\ trace' = <<>>
    /\ pc' = "test"
    /\ UNCHANGED <<mvars, loader_len, stop_after, next_input, next_target, input,
                   target, exhaustedAt, dvars>>

(* __iter__ up to the loop: count = 0; self.loaditer = iter(self.loader);
   self.preload().  The body of a generator starts to run when the consumer
   first asks it for an element.  A prefetcher that has finished an iteration
   can be iterated again (the training loop does so once per epoch). *)
Begin ==
    /\ pc \in {"new", "done"}
    /\ iters < MaxIters
    /\ iters' = iters + 1
    /\ count' = 0
    /\ yielded' = <<>>
    /\ preload(NewIter(iters + 1), <<>>, "test")
    /\ UNCHANGED <<mvars, loader_len, stop_after, input, target, exhaustedAt,
                   copyDone, mainQ, ran>>

(* while self.next_input is not None: *)
LoopTest ==
    /\ pc = "test"
    /\ IF next_input # None
         THEN pc' = "wait" /\ UNCHANGED exhaustedAt
         ELSE /\ pc' = "done"
              /\ exhaustedAt' = IF exhaustedAt = 0 THEN iters ELSE exhaustedAt
    /\ UNCHANGED <<mvars, loader_len, stop_after, loaditer, next_input, next_target,
                   count, input, target, iters, yielded, trace, dvars>>

\* The loop without its wait_stream line.
WaitStep_Missing ==
    /\ pc = "wait"
    /\ pc' = "capture"
    /\ UNCHANGED <<mvars, loader_len, stop_after, loaditer, next_input, next_target,
                   count, input, target, iters, yielded, trace, exhaustedAt, dvars>>

\* self.stream.wait_stream(torch.cuda.current_stream()): the wait is issued
\* the wrong way round, so it orders the copy stream and not the main stream.
WaitStep_Reversed ==
    /\ pc = "wait"
    /\ trace' = Append(trace, Event("wait", next_input.idx))
    /\ pc' = "capture"
    /\ UNCHANGED <<mvars, loader_len, stop_after, loaditer, next_input, next_target,
                   count, input, target, iters, yielded, exhaustedAt, dvars>>

(* torch.cuda.current_stream().wait_stream(self.stream): the main stream
   will not run anything queued after this point before every operation
   issued so far on the copy stream has completed.  The host does not block. *)
WaitStep ==
    /\ pc = "wait"
    /\ mainQ' = Append(mainQ, [op |-> "wait_stream", upto |-> copyIssued])
    /\ trace' = Append(trace, Event("wait", next_input.idx))
    /\ pc' = "capture"
    /\ UNCHANGED <<mvars, loader_len, stop_after, loaditer, next_input, next_target,
                   count, input, target, iters, yielded, exhaustedAt,
                   copyIssued, copyDone, ran>>

(* input = self.next_input; target = self.next_target *)
Capture ==
    /\ pc = "capture"
    /\ input' = next_input
    /\ target' = next_target
    /\ pc' = "preload"
    /\ UNCHANGED <<mvars, loader_len, stop_after, loaditer, next_input, next_target,
                   count, iters, yielded, trace, exhaustedAt, dvars>>

\* The loop leaving as soon as preload finds the source exhausted, before
\* the batch it has captured is yielded.
PreloadStep_DropLast ==
    /\ pc = "preload"
    /\ preload(loaditer, trace, IF loaditer.pos >= loader_len THEN "done" ELSE "yield")
    /\ UNCHANGED <<mvars, loader_len, stop_after, count, input, target, iters,
                   yielded, exhaustedAt, copyDone, mainQ, ran>>

(* self.preload() inside the loop *)
PreloadStep ==
    /\ pc = "preload"
    /\ preload(loaditer, trace, "yield")
    /\ UNCHANGED <<mvars, loader_len, stop_after, count, input, target, iters,
                   yielded, exhaustedAt, copyDone, mainQ, ran>>

(* count += 1; yield input, target *)
YieldStep ==
    /\ pc = "yield"
    /\ count' = count + 1
    /\ yielded' = Append(yielded, <<input, target>>)
    /\ trace' = Append(trace, Event("yield", input.idx))
    /\ pc' = "suspended"
    /\ UNCHANGED <<mvars, loader_len, stop_after, loaditer, next_input, next_target,
                   input, target, iters, exhaustedAt, dvars>>

(* The consumer works on the batch it was handed (a kernel reading it is
   queued on the main stream) and asks the generator for the next element,
   which resumes __iter__ after the yield. *)
Resume ==
    /\ pc = "suspended"
    /\ mainQ' = Append(mainQ, [op |-> "kernel", upto |-> yielded[Len(yielded)][1].op])
    /\ pc' = "check"
    /\ UNCHANGED <<mvars, loader_len, stop_after, loaditer, next_input, next_target,
                   count, input, target, iters, yielded, trace, exhaustedAt,
                   copyIssued, copyDone, ran>>

\* The cap compared with >= in place of >.
CapCheck_Ge ==
    /\ pc = "check"
    /\ IF stop_after.type = "int" /\ count >= stop_after.val
         THEN pc' = "done"
         ELSE pc' = "test"
    /\ UNCHANGED <<mvars, loader_len, stop_after, loaditer, next_input, next_target,
                   count, input, target, iters, yielded, trace, exhaustedAt,
                   dvars>>

(* if type(self.stop_after) is int and (count > self.stop_after): break *)
CapCheck ==
    /\ pc = "check"
    /\ IF stop_after.type = "int" /\ count > stop_after.val
         THEN pc' = "done"
         ELSE pc' = "test"
    /\ UNCHANGED <<mvars, loader_len, stop_after, loaditer, next_input, next_target,
                   count, input, target, iters, yielded, trace, exhaustedAt,
                   dvars>>

(* The device completes the oldest pending copy of the copy stream. *)
CopyExec ==
    /\ copyDone < copyIssued
    /\ copyDone' = copyDone + 1
    /\ UNCHANGED <<mvars, pvars, copyIssued, mainQ, ran>>

(* The device runs the operation at the head of the main stream: a
   wait_stream lets the stream pass once the copies it covers have completed;
   a kernel runs at once, whether or not the tensor it reads has arrived. *)
MainExec ==
    /\ mainQ # <<>>
    /\ LET h == Head(mainQ) IN
         \/ /\ h.op = "wait_stream"
            /\ copyDone >= h.upto
            /\ UNCHANGED ran
         \/ /\ h.op = "kernel"
            /\ ran' = Append(ran, [copy |-> h.upto, resident |-> copyDone >= h.upto])
    /\ mainQ' = Tail(mainQ)
    /\ UNCHANGED <<mvars, pvars, copyIssued, copyDone>>

----------------------------------------------------------------------------
(* main(): the three training stages *)

ImgSize == 128
BatchSize == 256
NumStages == 3

\* args.distributed = args.world_size > 1
Distributed(a) == a.world_size > 1

\* The first argument of the three torch_loader calls of main().
StagePath(a, s) ==
    CASE s = 1 -> a.data \o "-sz/160"
      [] s = 2 -> a.data \o "-sz/320"
      [] s = 3 -> a.data

\* The name argument of the three fit calls of main().
StageName(s) ==
    CASE s = 1 -> "1"
      [] s = 2 -> "3"
      [] s = 3 -> "3"

\* The lr argument of the three fit calls of main().
StageLr(s) ==
    CASE s = 1 -> "0.03"
      [] s = 2 -> "1e-1"
      [] s = 3 -> "1e-1"

(* save_args(name, save_dir): no keyword arguments off rank 0 or without a
   save directory (callbacks empty, names left to the framework defaults);
   otherwise the save names and one ImagenetLoggingCallback on
   <save_dir>/training_logs/<name>_log.txt. *)
save_args(a, name, save_dir) ==
    IF a.rank # 0 \/ a.save_dir = ""
      THEN [best_save_name |-> "", cycle_save_name |-> "", callbacks |-> <<>>]
      ELSE [best_save_name |-> name \o "_best_model",
            cycle_save_name |-> name,
            callbacks |-> <<save_dir \o "/training_logs" \o "/" \o name \o "_log.txt">>]

(* The three DataPrefetchers one torch_loader(data_path, size, bs) call
   builds, each over a DataLoader of its own; call numbers the torch_loader
   call that built them. *)
BuildPrefetchers(data_path, size, bs, distributed, call) ==
    LET sampler == IF distributed THEN "DistributedSampler" ELSE "None" IN
    << [call |-> call, root |-> data_path, dir |-> data_path \o "/train",
        tfms |-> "train_tfms", size |-> size, batch_size |-> bs,
        shuffle |-> ~distributed, sampler |-> sampler],
       [call |-> call, root |-> data_path, dir |-> data_path \o "/val",
        tfms |-> "val_tfms", size |-> size, batch_size |-> bs * 2,
        shuffle |-> FALSE, sampler |-> "None"],
       [call |-> call, root |-> data_path, dir |-> data_path \o "/val",
        tfms |-> "train_tfms", size |-> size, batch_size |-> bs,
        shuffle |-> FALSE, sampler |-> "None"] >>

ArgsSpace ==
    [data : {"imagenet"}, save_dir : {"", "out"}, rank : {0, 1},
     world_size : {1, 2}, fp16 : BOOLEAN, cudnn_enabled : BOOLEAN]

\* The defaults of get_parser(), on a machine with cudnn enabled.
DefaultArgs ==
    [data |-> "imagenet", save_dir |-> "imagenet_training", rank |-> 0,
     world_size |-> 1, fp16 |-> FALSE, cudnn_enabled |-> TRUE]

NoData == [path |-> "", trn_dl |-> 0, val_dl |-> 0, aug_dl |-> 0]

MainAt(a, at) ==
    /\ args = a
    /\ mpc = at
    /\ stage = 0
    /\ heap = <<>>
    /\ data = NoData
    /\ train_sampler = "None"
    /\ learner_data = NoData
    /\ loadCalls = <<>>
    /\ fitCalls = <<>>
    /\ logOpened = <<>>
    /\ received = <<>>
    /\ nbatch = 0

(* main() up to the first torch_loader call: the process group is joined
   when distributed (a rendezvous failure raises), fp16 asserts that cudnn is
   enabled, the model is built. *)
Setup ==
    /\ mpc = "start"
    /\ \/ /\ args.fp16 => args.cudnn_enabled
          /\ mpc' = "load"
          /\ stage' = 1
       \/ /\ args.fp16 /\ ~args.cudnn_enabled       \* AssertionError
          /\ mpc' = "raised"
          /\ UNCHANGED stage
       \/ /\ Distributed(args)                      \* dist.init_process_group raises
          /\ mpc' = "raised"
          /\ UNCHANGED stage
    /\ UNCHANGED <<pvars, dvars, args, heap, data, train_sampler, learner_data,
                   loadCalls, fitCalls, logOpened, received, nbatch>>

(* data, train_sampler = torch_loader(<stage path>, 128, 256) *)
TorchLoader ==
    /\ mpc = "load"
    /\ loadCalls' = Append(loadCalls, stage)
    /\ heap' = heap \o BuildPrefetchers(StagePath(args, stage), ImgSize, BatchSize,
                                        Distributed(args), Len(loadCalls) + 1)
    /\ data' = [path |-> StagePath(args, stage), trn_dl |-> Len(heap) + 1,
                val_dl |-> Len(heap) + 2, aug_dl |-> Len(heap) + 3]
    /\ train_sampler' = IF Distributed(args) THEN "DistributedSampler" ELSE "None"
    /\ mpc' = IF stage = 1 THEN "learner" ELSE "set_data"
    /\ UNCHANGED <<pvars, dvars, args, stage, learner_data, fitCalls, logOpened,
                   received, nbatch>>

(* torch_loader raises (a missing directory, a loader that cannot start). *)
TorchLoaderRaise ==
    /\ mpc = "load"
    /\ loadCalls' = Append(loadCalls, stage)
    /\ mpc' = "raised"
    /\ UNCHANGED <<pvars, dvars, args, stage, heap, data, train_sampler,
                   learner_data, fitCalls, logOpened, received, nbatch>>

(* learner = Learner.from_model_data(model, data), then crit, metrics, half,
   update_model_dir: the first stage's learner trains on the first data. *)
NewLearner ==
    /\ mpc = "learner"
    /\ learner_data' = data
    /\ mpc' = "fit"
    /\ UNCHANGED <<pvars, dvars, args, stage, heap, data, train_sampler,
                   loadCalls, fitCalls, logOpened, received, nbatch>>

\* main() without the learner.set_data(data) line.
SetData_Skipped ==
    /\ mpc = "set_data"
    /\ mpc' = "fit"
    /\ UNCHANGED <<pvars, dvars, args, stage, heap, data, train_sampler,
                   learner_data, loadCalls, fitCalls, logOpened, received, nbatch>>

(* learner.set_data(data) *)
SetData ==
    /\ mpc = "set_data"
    /\ learner_data' = data
    /\ mpc' = "fit"
    /\ UNCHANGED <<pvars, dvars, args, stage, heap, data, train_sampler,
                   loadCalls, fitCalls, logOpened, received, nbatch>>

(* fit(learner, name, lr, 1, train_sampler, wd) up to the start of training:
   sargs = save_args(name, args.save_dir); learner.fit(..., **sargs) begins
   and each callback's on_train_begin opens its log file for appending. *)
FitBegin ==
    /\ mpc = "fit"
    /\ LET sargs == save_args(args, StageName(stage), args.save_dir) IN
         /\ fitCalls' = Append(fitCalls, [stage |-> stage, name |-> StageName(stage),
                                          lr |-> StageLr(stage),
                                          sampler |-> train_sampler,
                                          cycle_save_name |-> sargs.cycle_save_name,
                                          returned |-> FALSE])
         /\ logOpened' = logOpened \o
               [i \in DOMAIN sargs.callbacks |-> [stage |-> stage, path |-> sargs.callbacks[i]]]
    /\ nbatch' = 0
    /\ mpc' = "fitting"
    /\ UNCHANGED <<pvars, dvars, args, stage, heap, data, train_sampler,
                   learner_data, loadCalls, received>>

(* The training loop of learner.fit is handed a batch by the training or the
   validation prefetcher of learner.data. *)
FitBatch ==
    /\ mpc = "fitting"
    /\ nbatch < MaxFitBatches
    /\ \E dl \in {learner_data.trn_dl, learner_data.val_dl} :
         received' = Append(received, [stage |-> stage, dl |-> dl])
    /\ nbatch' = nbatch + 1
    /\ UNCHANGED <<pvars, dvars, args, mpc, stage, heap, data, train_sampler,
                   learner_data, loadCalls, fitCalls, logOpened>>

(* learner.fit returns; main() goes on to the next stage, or to the final
   print after the third. *)
FitReturn ==
    /\ mpc = "fitting"
    /\ fitCalls' = [fitCalls EXCEPT ![Len(fitCalls)].returned = TRUE]
    /\ IF stage < NumStages
         THEN mpc' = "load" /\ stage' = stage + 1
         ELSE mpc' = "print" /\ UNCHANGED stage
    /\ UNCHANGED <<pvars, dvars, args, heap, data, train_sampler, learner_data,
                   loadCalls, logOpened, received, nbatch>>

\* fit() wrapped in a handler that tries the stage again.
FitRaise_Retry ==
    /\ mpc = "fitting"
    /\ mpc' = "fit"
    /\ UNCHANGED <<pvars, dvars, args, stage, heap, data, train_sampler,
                   learner_data, loadCalls, fitCalls, logOpened, received, nbatch>>

(* learner.fit raises: fit() catches nothing (it only filters warnings) and
   main() has no handler, so the error leaves main(). *)
FitRaise ==
    /\ mpc = "fitting"
    /\ mpc' = "raised"
    /\ UNCHANGED <<pvars, dvars, args, stage, heap, data, train_sampler,
                   learner_data, loadCalls, fitCalls, logOpened, received, nbatch>>

(* print('Finished!') *)
Finished ==
    /\ mpc = "print"
    /\ mpc' = "finished"
    /\ UNCHANGED <<pvars, dvars, args, stage, heap, data, train_sampler,
                   learner_data, loadCalls, fitCalls, logOpened, received, nbatch>>

----------------------------------------------------------------------------
(* Specifications *)

Init ==
    /\ \E len \in 0..MaxLen, cap \in Caps : NewPrefetcher(len, cap)
    /\ MainAt(DefaultArgs, "not_started")

Next ==
    \/ Begin
    \/ LoopTest
    \/ WaitStep
    \/ Capture
    \/ PreloadStep
    \/ YieldStep
    \/ Resume
    \/ CapCheck
    \/ CopyExec
    \/ MainExec

Spec == Init /\ [][Next]_vars

InitMain ==
    /\ NewPrefetcher(0, None)
    /\ \E a \in ArgsSpace : MainAt(a, "start")

NextMain ==
    \/ Setup
    \/ TorchLoader
    \/ TorchLoaderRaise
    \/ NewLearner
    \/ SetData
    \/ FitBegin
    \/ FitBatch
    \/ FitReturn
    \/ FitRaise
    \/ Finished

SpecMain == InitMain /\ [][NextMain]_vars

----------------------------------------------------------------------------
(* Properties of the DataPrefetcher (checked under Spec) *)

\* The pair p is batch idx (0-based) of the it-th iterator of the loader,
\* both halves on the device.
IsBatch(p, it, idx) ==
    /\ p[1].type = "Tensor" /\ p[2].type = "Tensor"
    /\ p[1].part = "input" /\ p[2].part = "target"
    /\ p[1].it = it /\ p[2].it = it
    /\ p[1].idx = idx /\ p[2].idx = idx
    /\ p[1].dev = "cuda" /\ p[2].dev = "cuda"

\* Every element yielded so far is the source's element of the same rank.
InSourceOrder == \A j \in 1..Len(yielded) : IsBatch(yielded[j], iters, j - 1)

\* How many events ev the trace holds at positions 1..p.
CountUpTo(ev, p) == Cardinality({q \in 1..p : trace[q].ev = ev})

Count(ev) == CountUpTo(ev, Len(trace))

Min(a, b) == IF a < b THEN a ELSE b

\* What a complete iteration hands out: the whole source, or, under an int
\* cap, the batches up to the first check that finds count > stop_after
\* (the check runs after a yield, so at least one batch of a non-empty source).
ExpectedLen ==
    IF stop_after.type = "int"
      THEN Min(loader_len, (IF stop_after.val > 0 THEN stop_after.val ELSE 0) + 1)
      ELSE loader_len

\* C1: without a cap, an iteration that runs to its end hands out exactly
\* the N batches of the source, the i-th yielded being the i-th of the
\* source, and the loop ends once the N-th has been handed out.
C1_AllBatchesInOrder ==
    stop_after = None =>
        /\ Len(yielded) <= loader_len
        /\ InSourceOrder
        /\ (pc = "done" => Len(yielded) = loader_len)
        /\ (pc = "test" /\ Len(yielded) = loader_len => next_input = None)

C1_Witness ==
    /\ stop_after = None
    /\ pc = "done"
    /\ loader_len >= 2
    /\ Len(yielded) = loader_len

\* C2: copies issued on the copy stream minus waits issued on the main
\* stream is 0 or 1 throughout an iteration, capped or not, stopped or not.
C2_AtMostOneInFlight == Count("copy") - Count("wait") \in {0, 1}

C2_Witness ==
    /\ stop_after.type = "int"
    /\ pc = "done"
    /\ Count("wait") >= 2
    /\ Count("copy") - Count("wait") = 1

\* C3: every yielded batch had its copy issued, then a wait issued, then was
\* yielded; and every kernel the consumer queued on a yielded batch ran on
\* the main stream only after that batch's copy had completed.
C3_YieldedAfterWait ==
    /\ \A p \in DOMAIN trace :
          trace[p].ev = "yield" =>
             \E c \in 1..p, w \in 1..p :
                /\ c < w /\ w < p
                /\ trace[c] = Event("copy", trace[p].idx)
                /\ trace[w] = Event("wait", trace[p].idx)
    /\ \A i \in DOMAIN ran : ran[i].resident

C3_Witness ==
    /\ Count("yield") >= 2
    /\ Len(ran) >= 2
    /\ copyDone < copyIssued

\* C4 as claimed: with any integer cap k < N the iteration hands out the
\* first k+1 batches of the source in order and then stops.
C4_AnyIntCapYieldsKPlusOne ==
    (stop_after.type = "int" /\ stop_after.val < loader_len) =>
        /\ InSourceOrder
        /\ (pc = "done" => Len(yielded) = stop_after.val + 1)

\* C4 as amended: with an integer cap k, 0 <= k < N, the iteration hands out
\* the first k+1 batches of the source in order and then stops.
C4_CapYieldsKPlusOne ==
    (stop_after.type = "int" /\ 0 <= stop_after.val /\ stop_after.val < loader_len) =>
        /\ Len(yielded) <= stop_after.val + 1
        /\ InSourceOrder
        /\ (pc = "done" => Len(yielded) = stop_after.val + 1)

C4_Witness ==
    /\ stop_after = PyInt(1)
    /\ loader_len = 3
    /\ pc = "done"
    /\ Len(yielded) = 2
    /\ next_input # None

\* C5 as claimed: once the prefetcher has run its source to exhaustion, a
\* later iteration of the same prefetcher yields no batch.
C5_InertAfterExhaustion ==
    (exhaustedAt > 0 /\ iters > exhaustedAt) => yielded = <<>>

\* C5 as amended: exhaustion ends the iteration without an error, and a later
\* iteration of the same prefetcher runs on a fresh iterator of the loader
\* and hands out that iterator's batches from the first one, in order, all
\* that a first iteration would hand out.
C5_RestartsOnFreshIterator ==
    /\ (pc = "done" /\ exhaustedAt = iters) => Count("fail") = 0
    /\ (exhaustedAt > 0 /\ iters > exhaustedAt) =>
          /\ loaditer.it = iters
          /\ InSourceOrder
          /\ (pc = "done" => Len(yielded) = ExpectedLen)

C5_Witness ==
    /\ exhaustedAt = 1
    /\ iters = 2
    /\ pc = "done"
    /\ loader_len >= 2
    /\ Len(yielded) = loader_len

C10_PreloadFailurePropagates ==
    \A p \in DOMAIN trace :
        trace[p].ev = "fail" =>
            /\ p = Len(trace)
            /\ pc = "error"
            /\ Len(yielded) = (IF trace[p].idx >= 1 THEN trace[p].idx - 1 ELSE 0)
            /\ InSourceOrder

C10_Witness ==
    /\ pc = "error"
    /\ trace[Len(trace)] = Event("fail", 2)
    /\ Len(yielded) = 1

----------------------------------------------------------------------------
(* Properties of main() (checked under SpecMain) *)

\* C6: every batch handed to the training loop during a stage comes from a
\* prefetcher built by that stage's torch_loader call on that stage's
\* dataset, and during a fit the learner holds exactly those prefetchers.
C6_NoBatchFromEarlierStage ==
    /\ \A i \in DOMAIN received :
          /\ heap[received[i].dl].call = received[i].stage
          /\ heap[received[i].dl].root = StagePath(args, received[i].stage)
    /\ mpc \in {"fit", "fitting"} =>
          /\ learner_data = data
          /\ \A dl \in {learner_data.trn_dl, learner_data.val_dl, learner_data.aug_dl} :
                heap[dl].call = stage

C6_Witness ==
    /\ stage = 3
    /\ \E i \in DOMAIN received : received[i].stage = 3
    /\ \E i \in DOMAIN received : received[i].stage = 2
    /\ \E i \in DOMAIN received : received[i].stage = 1

\* C7 as claimed: on rank 0 with a save directory, a finished run has opened
\* one log file per stage, <save-dir>/training_logs/<stage-name>_log.txt, and
\* the three paths are pairwise distinct.
C7_OneLogFilePerStage ==
    (mpc = "finished" /\ args.rank = 0 /\ args.save_dir # "") =>
        /\ Len(logOpened) = NumStages
        /\ \A i \in 1..NumStages :
              logOpened[i].path =
                 args.save_dir \o "/training_logs/" \o StageName(i) \o "_log.txt"
        /\ \A i \in 1..NumStages, j \in 1..NumStages :
              i # j => logOpened[i].path # logOpened[j].path

\* C8: each stage is loaded and fitted at most once, in stage order; a raise
\* ends main() where it happened, with no later stage loaded or fitted and
\* nothing more to run; the run finishes only after three fits that returned.
C8_FailFastThreeFits ==
    /\ \A i \in DOMAIN loadCalls : loadCalls[i] = i
    /\ \A i \in DOMAIN fitCalls : fitCalls[i].stage = i
    /\ Len(fitCalls) <= Len(loadCalls) /\ Len(loadCalls) <= NumStages
    /\ mpc = "raised" =>
          /\ Len(loadCalls) <= stage /\ Len(fitCalls) <= stage
          /\ ~ENABLED NextMain
    /\ mpc = "finished" =>
          /\ Len(fitCalls) = NumStages
          /\ \A i \in 1..NumStages : fitCalls[i].returned

C8_Witness ==
    /\ mpc = "raised"
    /\ stage = 2
    /\ Len(fitCalls) = 2
    /\ fitCalls[1].returned

====
